---- MODULE Spec2Model ----
(***************************************************************************)
(* Model of src/opticalSystemClass.py: class OpticalSystem, a Gaussian     *)
(* beam and an ordered list of ABCD ray-transfer matrices.                  *)
(*                                                                         *)
(* Numbers.  A float is modelled as an extended rational <<n, d>>:          *)
(*   d > 0   the rational n/d in lowest terms,                              *)
(*   <<1,0>> +inf,  <<-1,0>> -inf,  <<0,0>> NaN.                            *)
(* Arithmetic on finite values is exact (rounding, overflow and signed      *)
(* zeros are not modelled); inf and NaN follow IEEE-754 as numpy applies   *)
(* it.  A complex number is a pair <<re, im>> of such values.              *)
(*                                                                         *)
(* Arguments.  The numeric arguments of a call are either all Python       *)
(* numbers, whose division by zero raises ZeroDivisionError, or all numpy  *)
(* scalars, whose division by zero gives inf or NaN with a warning.        *)
(***************************************************************************)
EXTENDS Integers, Sequences, FiniteSets, TLC

\* Longest element list the model builds.
MaxLen == 2

----
\* ---------------------------------------------------------------- numbers

AbsInt(n) == IF n < 0 THEN -n ELSE n

SignInt(n) == IF n < 0 THEN -1 ELSE IF n > 0 THEN 1 ELSE 0

RECURSIVE GCD(_, _)
GCD(a, b) == IF b = 0 THEN a ELSE GCD(b, a % b)

\* The extended rational n/d, d >= 0, in canonical form.
Norm(n, d) ==
  IF d = 0 THEN <<SignInt(n), 0>>
  ELSE LET g == GCD(AbsInt(n), d) IN <<n \div g, d \div g>>

R(n) == <<n, 1>>
Frac(n, d) == Norm(n, d)
NaN == <<0, 0>>

IsNaN(a) == a = NaN
IsFinite(a) == a[2] > 0
IsZero(a) == a = <<0, 1>>

RNeg(a) == <<-a[1], a[2]>>

\* Finite sums go over the least common denominator, to keep the integers small.
RAdd(a, b) ==
  IF IsFinite(a) /\ IsFinite(b)
  THEN LET g == GCD(a[2], b[2])
       IN Norm(a[1] * (b[2] \div g) + b[1] * (a[2] \div g), (a[2] \div g) * b[2])
  ELSE IF IsNaN(a) \/ IsNaN(b) THEN NaN
  ELSE IF IsFinite(a) THEN b
  ELSE IF IsFinite(b) THEN a
  ELSE IF a = b THEN a ELSE NaN

RSub(a, b) == RAdd(a, RNeg(b))

\* inf * 0 = NaN, inf * x = +-inf: the product of the fractions covers all cases
\* (finite factors are cancelled crosswise first, to keep the integers small).
RMul(a, b) ==
  IF IsFinite(a) /\ IsFinite(b)
  THEN LET g1 == GCD(AbsInt(a[1]), b[2])
           g2 == GCD(AbsInt(b[1]), a[2])
       IN <<(a[1] \div g1) * (b[1] \div g2), (a[2] \div g2) * (b[2] \div g1)>>
  ELSE Norm(a[1] * b[1], a[2] * b[2])

RRecip(a) == IF a[1] < 0 THEN <<-a[2], -a[1]>> ELSE <<a[2], a[1]>>

\* numpy's float division: x/0 is +-inf, 0/0 is NaN (a RuntimeWarning, no error).
NpDiv(a, b) == RMul(a, RRecip(b))

RAbs(a) == <<AbsInt(a[1]), a[2]>>

\* a >= b on floats: FALSE as soon as one side is NaN.
RGeq(a, b) == ~IsNaN(a) /\ ~IsNaN(b) /\ a[1] * b[2] >= b[1] * a[2]

RLess(a, b) == ~IsNaN(a) /\ ~IsNaN(b) /\ a[1] * b[2] < b[1] * a[2]

\* ---------------------------------------------------------------- complex

Cx(re, im) == <<re, im>>

CAdd(a, b) == <<RAdd(a[1], b[1]), RAdd(a[2], b[2])>>

CMul(a, b) ==
  <<RSub(RMul(a[1], b[1]), RMul(a[2], b[2])),
    RAdd(RMul(a[1], b[2]), RMul(a[2], b[1]))>>

\* numpy's complex128 division (Smith's algorithm, as numpy codes it).
CDiv(a, b) ==
  LET br == RAbs(b[1])
      bi == RAbs(b[2])
  IN IF RGeq(br, bi)
     THEN IF IsZero(br) /\ IsZero(bi)
          THEN <<NpDiv(a[1], br), NpDiv(a[2], br)>>
          ELSE LET rat == NpDiv(b[2], b[1])
                   scl == NpDiv(R(1), RAdd(b[1], RMul(b[2], rat)))
               IN <<RMul(RAdd(a[1], RMul(a[2], rat)), scl),
                    RMul(RSub(a[2], RMul(a[1], rat)), scl)>>
     ELSE LET rat == NpDiv(b[1], b[2])
              scl == NpDiv(R(1), RAdd(b[2], RMul(b[1], rat)))
          IN <<RMul(RAdd(RMul(a[1], rat), a[2]), scl),
               RMul(RSub(RMul(a[2], rat), a[1]), scl)>>

\* ---------------------------------------------------------------- matrices
\* A 2x2 matrix is <<<<a, b>>, <<c, d>>>>, a column vector <<x, y>>.

Mat(a, b, c, d) == <<<<a, b>>, <<c, d>>>>

Eye2 == Mat(R(1), R(0), R(0), R(1))

MatMul(m, n) ==
  Mat(RAdd(RMul(m[1][1], n[1][1]), RMul(m[1][2], n[2][1])),
      RAdd(RMul(m[1][1], n[1][2]), RMul(m[1][2], n[2][2])),
      RAdd(RMul(m[2][1], n[1][1]), RMul(m[2][2], n[2][1])),
      RAdd(RMul(m[2][1], n[1][2]), RMul(m[2][2], n[2][2])))

MatVec(m, v) ==
  <<RAdd(RMul(m[1][1], v[1]), RMul(m[1][2], v[2])),
    RAdd(RMul(m[2][1], v[1]), RMul(m[2][2], v[2]))>>

\* ---------------------------------------------------------------- inputs

\* np.pi, itself a rational approximation of pi.
PI == Frac(22, 7)

\* (wavelength, waist, z, theta) the constructor is called with: valid beams (one
\* with the default z = 0, theta = 0) and beams the constructor does not reject
\* (negative wavelength, zero waist).  The magnitudes make pi*waist^2/wavelength
\* a small number.  A zero Python wavelength raises in __init__: no object exists.
Beams == {<<154, 7, 0, 0>>, <<77, 7, 1, 2>>, <<-154, 7, 1, 1>>, <<154, 0, 0, 1>>}

\* Arguments of the element calls.  <<0, 0>> are the default indices of lens().
Distances == {0, 1, 2}
FocalLengths == {0, 1}
Radii == {0, 2}
LensIndexPairs == {<<0, 0>>, <<1, 2>>}
LensThicknesses == {1}
InterfaceIndexPairs == {<<0, 0>>, <<1, 2>>, <<2, 1>>}
InterfaceDistances == {0, 1}
LensTypes == {"thin", "thick", "bogus"}
MirrorTypes == {"flat", "curved", "bogus"}

\* An attribute that has not been assigned (hasattr is False).
Absent == "absent"

VARIABLES
  wavelength, waist, z, theta, q,        \* set by __init__
  optics,                                \* self.optics
  q_out, waist_out, z_out, theta_out,    \* set by propagate_beam
  ABCD_matrix,                           \* local of the last propagate_beam
  propagations,                          \* propagate_beam calls since the last append
  propagated,                            \* propagate_beam has completed at least once
  lastCall                               \* the method called last and how it ended

vars == <<wavelength, waist, z, theta, q, optics, q_out, waist_out, z_out,
          theta_out, ABCD_matrix, propagations, propagated, lastCall>>

\* The outputs are those of a propagate_beam over the present element list.
fresh == propagations # "none"

beam == <<wavelength, waist, z, theta, q>>
outputs == <<q_out, waist_out, z_out, theta_out>>

\* The record of a call.  divzero says whether the matrix the call builds divides
\* by an argument that is zero, and of which kind that argument is: "python" (a
\* Python int or float, whose division raises ZeroDivisionError) or "numpy" (a
\* numpy scalar, whose division gives inf or NaN).
Call(op, type, add, divzero, raised) ==
  [op |-> op, type |-> type, add |-> add, divzero |-> divzero, raised |-> raised]

DivZero(isZero, np) == IF ~isZero THEN "no" ELSE IF np THEN "numpy" ELSE "python"

\* ---------------------------------------------------------------- __init__

InitialQ(wl, w) == Cx(R(0), NpDiv(RMul(PI, R(w * w)), R(wl)))

Init ==
  /\ \E b \in Beams :
       /\ wavelength = R(b[1])
       /\ waist = R(b[2])
       /\ z = R(b[3])
       /\ theta = R(b[4])
       /\ q = InitialQ(b[1], b[2])
  /\ optics = <<>>
  /\ q_out = Absent
  /\ waist_out = Absent
  /\ z_out = Absent
  /\ theta_out = Absent
  /\ ABCD_matrix = Absent
  /\ propagations = "none"
  /\ propagated = FALSE
  /\ lastCall = Call("__init__", "", FALSE, "no", "none")

\* ---------------------------------------------------------------- elements

\* Mutant: the distance lands in the lower-left entry.
freeSpaceMatrix_Transposed(d) == Mat(R(1), R(0), d, R(1))

freeSpaceMatrix(d) == Mat(R(1), d, R(0), R(1))

\* Mutant: the add flag is ignored and the matrix is appended in every call.
freeSpaceEffect_AlwaysAppends(opt, d, add) ==
  [optics |-> Append(opt, freeSpaceMatrix(d)), ret |-> freeSpaceMatrix(d)]

\* freeSpace(d, add): the element list after the call and the value returned.
freeSpaceEffect(opt, d, add) ==
  IF add
  THEN [optics |-> Append(opt, freeSpaceMatrix(d)), ret |-> "None"]
  ELSE [optics |-> opt, ret |-> freeSpaceMatrix(d)]

thinLensMatrix(f) == Mat(R(1), R(0), NpDiv(R(-1), f), R(1))

\* The thick lens product, propagation being what freeSpace(d, add=False) returned.
thickLensMatrix(f, n1, n2, propagation) ==
  MatMul(MatMul(Mat(R(1), R(0), NpDiv(NpDiv(RSub(n2, n1), n1), f), NpDiv(n2, n1)),
                propagation),
         Mat(R(1), R(0), NpDiv(NpDiv(RSub(n1, n2), n2), f), NpDiv(n1, n2)))

flatMirrorMatrix == Mat(R(1), R(0), R(0), R(1))

curvedMirrorMatrix(radius) == Mat(R(1), R(0), NpDiv(R(-2), radius), R(1))

\* Mutant: the exit scaling is n2 instead of n2/n1.
interfaceMatrix_DroppedDivisor(n1, n2, propagation) ==
  LET initialInt == Mat(R(1), R(0), R(0), NpDiv(n1, n2))
      finalInt == Mat(R(1), R(0), R(0), n2)
  IN MatMul(MatMul(initialInt, propagation), finalInt)

interfaceMatrix(n1, n2, propagation) ==
  LET initialInt == Mat(R(1), R(0), R(0), NpDiv(n1, n2))
      finalInt == Mat(R(1), R(0), R(0), NpDiv(n2, n1))
  IN MatMul(MatMul(initialInt, propagation), finalInt)

\* The model builds lists of at most MaxLen elements.
CanAppend == Len(optics) < MaxLen

\* A call that returns normally, leaving the element list newOptics.
Returned(newOptics, call) ==
  /\ Len(newOptics) <= MaxLen
  /\ optics' = newOptics
  /\ propagations' = IF newOptics = optics THEN propagations ELSE "none"
  /\ lastCall' = call
  /\ UNCHANGED <<beam, outputs, ABCD_matrix, propagated>>

\* A call that raises before it assigns anything.
Raised(call) ==
  /\ lastCall' = call
  /\ UNCHANGED <<beam, optics, outputs, ABCD_matrix, propagations, propagated>>

freeSpace ==
  \E d \in Distances : \E add \in BOOLEAN :
  (add => CanAppend) /\
  \E fs \in {freeSpaceEffect(optics, R(d), add)} :
    Returned(fs.optics, Call("freeSpace", "", add, "no", "none"))

\* Mutant: every type that is not thick is taken for thin.
LensBranch_DefaultThin(type) == IF type = "thick" THEN "thick" ELSE "thin"

\* The if/elif/else of lens(): the branch a type selects.
LensBranch(type) ==
  IF type = "thin" THEN "thin" ELSE IF type = "thick" THEN "thick" ELSE "raise"

\* Python evaluates the matrix entries before the append: a zero Python divisor
\* raises ZeroDivisionError and nothing is appended.  An unknown type raises
\* before any argument is used.
lens ==
  \E type \in LensTypes : \E f \in FocalLengths : \E np \in BOOLEAN :
    IF LensBranch(type) = "thin"
    THEN LET dz == DivZero(f = 0, np)
         IN IF dz = "python"
            THEN Raised(Call("lens", type, TRUE, dz, "ZeroDivisionError"))
            ELSE CanAppend /\ \E m \in {thinLensMatrix(R(f))} :
                   Returned(Append(optics, m), Call("lens", type, TRUE, dz, "none"))
    ELSE IF LensBranch(type) = "thick"
    THEN \E n \in LensIndexPairs : \E d \in LensThicknesses :
           LET dz == DivZero(n[1] = 0 \/ f = 0 \/ n[2] = 0, np)
           IN IF dz = "python"
              THEN Raised(Call("lens", type, TRUE, dz, "ZeroDivisionError"))
              ELSE CanAppend /\
                   \E fs \in {freeSpaceEffect(optics, R(d), FALSE)} :
                   \E m \in {thickLensMatrix(R(f), R(n[1]), R(n[2]), fs.ret)} :
                     Returned(Append(fs.optics, m), Call("lens", type, TRUE, dz, "none"))
    ELSE Raised(Call("lens", type, TRUE, "no", "ValueError"))

mirror ==
  \E type \in MirrorTypes : \E radius \in Radii : \E np \in BOOLEAN :
    IF type = "flat"
    THEN CanAppend /\
         Returned(Append(optics, flatMirrorMatrix),
                  Call("mirror", type, TRUE, "no", "none"))
    ELSE IF type = "curved"
    THEN LET dz == DivZero(radius = 0, np)
         IN IF dz = "python"
            THEN Raised(Call("mirror", type, TRUE, dz, "ZeroDivisionError"))
            ELSE CanAppend /\ \E m \in {curvedMirrorMatrix(R(radius))} :
                   Returned(Append(optics, m), Call("mirror", type, TRUE, dz, "none"))
    ELSE Raised(Call("mirror", type, TRUE, "no", "ValueError"))

interface ==
  \E n \in InterfaceIndexPairs : \E d \in InterfaceDistances : \E np \in BOOLEAN :
    LET dz == DivZero(n[1] = 0 \/ n[2] = 0, np)
    IN IF dz = "python"
       THEN Raised(Call("interface", "", TRUE, dz, "ZeroDivisionError"))
       ELSE CanAppend /\
            \E fs \in {freeSpaceEffect(optics, R(d), FALSE)} :
            \E m \in {interfaceMatrix(R(n[1]), R(n[2]), fs.ret)} :
              Returned(Append(fs.optics, m), Call("interface", "", TRUE, dz, "none"))

\* ---------------------------------------------------------------- propagate_beam

\* Mutant: the elements are multiplied in append order (no reversed()).
RECURSIVE ComposeForwardFrom(_, _, _)
ComposeForwardFrom(acc, opt, k) ==
  IF k > Len(opt) THEN acc ELSE ComposeForwardFrom(MatMul(acc, opt[k]), opt, k + 1)

ComposeABCD_Forward(opt) == ComposeForwardFrom(Eye2, opt, 1)

\* for element in reversed(self.optics): ABCD_matrix = ABCD_matrix @ element
RECURSIVE ComposeFrom(_, _, _)
ComposeFrom(acc, opt, k) ==
  IF k = 0 THEN acc ELSE ComposeFrom(MatMul(acc, opt[k]), opt, k - 1)

ComposeABCD(opt) == ComposeFrom(Eye2, opt, Len(opt))

\* self.q_out = A*self.q + B/(C*self.q + D), in numpy's complex arithmetic.
QOut(m, qq) ==
  LET A == m[1][1]
      B == m[1][2]
      C == m[2][1]
      D == m[2][2]
  IN CAdd(CMul(Cx(A, R(0)), qq),
          CDiv(Cx(B, R(0)), CAdd(CMul(Cx(C, R(0)), qq), Cx(D, R(0)))))

\* A value sqrt(x) is stored as Root(x); np.sqrt of a negative number or NaN is NaN.
Root(x) == IF IsNaN(x) \/ RLess(x, R(0)) THEN <<"root", NaN>> ELSE <<"root", x>>

\* sqrt(x) * sqrt(y) for the stored forms: sqrt(x*y), NaN as soon as one side is.
RootMul(a, b) ==
  IF IsNaN(a[2]) \/ IsNaN(b[2]) THEN <<"root", NaN>> ELSE <<"root", RMul(a[2], b[2])>>

\* Mutant: the wavelength factor is missing under the first root.
WaistOut_NoWavelength(wl, qo) ==
  LET ratio == NpDiv(qo[1], qo[2])
  IN RootMul(Root(NpDiv(RAbs(qo[2]), PI)),
             Root(RAdd(R(1), RMul(ratio, ratio))))

\* np.sqrt(wavelength*|Im q_out|/pi) * np.sqrt(1 + (Re q_out / Im q_out)**2)
WaistOut(wl, qo) ==
  LET ratio == NpDiv(qo[1], qo[2])
  IN RootMul(Root(NpDiv(RMul(wl, RAbs(qo[2])), PI)),
             Root(RAdd(R(1), RMul(ratio, ratio))))

\* Mutant: a second propagation starts from the stored q_out.
SelfQ_Chained == IF q_out # Absent THEN q_out ELSE q

\* The beam parameter propagate_beam starts from.
SelfQ == q

propagate_beam ==
  \E m \in {ComposeABCD(optics)} :
  \E out \in {MatVec(m, <<z, theta>>)} :
  \E qo \in {QOut(m, SelfQ)} :
     /\ ABCD_matrix' = m
     /\ q_out' = qo
     /\ waist_out' = WaistOut(wavelength, qo)
     /\ z_out' = out[1]
     /\ theta_out' = out[2]
     /\ propagations' = IF propagations = "none" THEN "once" ELSE "again"
     /\ propagated' = TRUE
     /\ lastCall' = Call("propagate_beam", "", FALSE, "no", "none")
     /\ UNCHANGED <<beam, optics>>

\* ---------------------------------------------------------------- plotBeamProfile

\* Mutant: the guard is missing.
hasattr_waist_out_Unchecked == TRUE

hasattr_waist_out == waist_out # Absent

\* Only the guard is modelled: the drawing itself changes no field.
plotBeamProfile ==
  /\ lastCall' = Call("plotBeamProfile", "", FALSE, "no",
                      IF hasattr_waist_out THEN "none" ELSE "ValueError")
  /\ UNCHANGED <<beam, optics, outputs, ABCD_matrix, propagations, propagated>>

Next ==
  \/ freeSpace
  \/ lens
  \/ mirror
  \/ interface
  \/ propagate_beam
  \/ plotBeamProfile

Spec == Init /\ [][Next]_vars

\* ---------------------------------------------------------------- claims

OutputsPresent ==
  q_out # Absent /\ waist_out # Absent /\ z_out # Absent /\ theta_out # Absent

OutputsAbsent ==
  q_out = Absent /\ waist_out = Absent /\ z_out = Absent /\ theta_out = Absent

MatFinite(m) == \A i \in 1..2 : \A j \in 1..2 : IsFinite(m[i][j])

\* Every element matrix has real entries (no inf, no NaN).
OpticsFinite == \A i \in 1..Len(optics) : MatFinite(optics[i])

ValidBeam == RLess(R(0), wavelength) /\ RLess(R(0), waist)

\* (A*q + B) / (C*q + D) for the entries A, B, C, D of m.
Bilinear(m, qq) ==
  CDiv(CAdd(CMul(Cx(m[1][1], R(0)), qq), Cx(m[1][2], R(0))),
       CAdd(CMul(Cx(m[2][1], R(0)), qq), Cx(m[2][2], R(0))))

\* Mn * (... * (M2 * M1)) for ms = <<M1, ..., Mn>>.
RECURSIVE ProductLastLeftmost(_, _)
ProductLastLeftmost(ms, n) ==
  IF n = 0 THEN Eye2
  ELSE IF n = 1 THEN ms[1]
  ELSE MatMul(ms[n], ProductLastLeftmost(ms, n - 1))

\* C1: after propagate_beam the stored q_out is (A*q + B)/(C*q + D) for the
\* composed matrix [[A, B], [C, D]] and the initial q, whatever elements were
\* appended (stated on element matrices with real entries and a valid beam).
C1_BilinearTransform ==
  (fresh /\ OpticsFinite /\ ValidBeam) => q_out = Bilinear(ABCD_matrix, q)

C3_IdentityPropagation ==
  (fresh /\ optics = <<>> /\ ValidBeam) =>
    /\ z_out = z
    /\ theta_out = theta
    /\ q_out = q
    /\ waist_out = Root(RMul(waist, waist))

C3_Witness == fresh /\ optics = <<>> /\ ValidBeam

\* C4: a propagate_beam call made when the outputs already are those of a
\* propagate_beam over the present element list (no append since) leaves q_out,
\* waist_out, z_out and theta_out as they were.
C4_Idempotent ==
  [][(fresh /\ lastCall'.op = "propagate_beam") => outputs' = outputs]_vars

C4_Witness == propagations = "again" /\ Len(optics) = 2 /\ OpticsFinite

\* C5: before the first propagate_beam the outputs are absent and a plot call
\* raises; from the first propagate_beam on the outputs are present and a plot
\* call does not raise that error.
C5_PlotGuard ==
  /\ ~propagated =>
       /\ OutputsAbsent
       /\ lastCall.op = "plotBeamProfile" => lastCall.raised = "ValueError"
  /\ propagated =>
       /\ OutputsPresent
       /\ lastCall.op = "plotBeamProfile" => lastCall.raised = "none"

C5_Witness ==
  /\ propagated
  /\ ~fresh
  /\ lastCall.op = "plotBeamProfile"
  /\ lastCall.raised = "none"

\* C6: a lens call with a type other than thin or thick, and a mirror call with
\* a type other than flat or curved, raises ValueError.
C6_InvalidType ==
  /\ (lastCall.op = "lens" /\ lastCall.type \notin {"thin", "thick"})
       => lastCall.raised = "ValueError"
  /\ (lastCall.op = "mirror" /\ lastCall.type \notin {"flat", "curved"})
       => lastCall.raised = "ValueError"

C6_Witness ==
  /\ lastCall.op = "lens"
  /\ lastCall.type = "bogus"
  /\ lastCall.raised = "ValueError"
  /\ Len(optics) = 1

\* C7: an append call whose matrix divides by a zero argument raises, and no
\* matrix of the element list ever has an infinite or NaN entry.
C7_DivisionByZeroRejected ==
  /\ lastCall.divzero # "no" => lastCall.raised # "none"
  /\ OpticsFinite

\* C8: free space d1 then free space d2, propagated, gives the outputs of the
\* single free space d1 + d2: q_out = q + d1 + d2, z_out = z + (d1 + d2)*theta,
\* theta_out = theta.
C8_FreeSpaceAdditive ==
  \A d1 \in Distances : \A d2 \in Distances :
    (fresh /\ optics = <<freeSpaceMatrix(R(d1)), freeSpaceMatrix(R(d2))>>) =>
      LET single == ComposeABCD(<<freeSpaceMatrix(R(d1 + d2))>>)
      IN /\ q_out = CAdd(q, Cx(R(d1 + d2), R(0)))
         /\ z_out = RAdd(z, RMul(R(d1 + d2), theta))
         /\ theta_out = theta
         /\ q_out = QOut(single, q)
         /\ <<z_out, theta_out>> = MatVec(single, <<z, theta>>)

C8_Witness ==
  /\ fresh
  /\ optics = <<freeSpaceMatrix(R(1)), freeSpaceMatrix(R(2))>>
  /\ theta # R(0)

\* C9: for nonzero n1, n2, interface(n1, n2, 0) followed by interface(n2, n1, 0),
\* propagated, gives q_out = q, z_out = z, theta_out = theta: the two matrices
\* compose to the identity.
C9_InterfaceRoundTrip ==
  \A n \in InterfaceIndexPairs :
    (/\ n[1] # 0
     /\ n[2] # 0
     /\ fresh
     /\ optics = <<interfaceMatrix(R(n[1]), R(n[2]), freeSpaceMatrix(R(0))),
                   interfaceMatrix(R(n[2]), R(n[1]), freeSpaceMatrix(R(0)))>>) =>
      /\ ABCD_matrix = Eye2
      /\ q_out = q
      /\ z_out = z
      /\ theta_out = theta

C9_Witness ==
  /\ fresh
  /\ optics = <<interfaceMatrix(R(1), R(2), freeSpaceMatrix(R(0))),
                interfaceMatrix(R(2), R(1), freeSpaceMatrix(R(0)))>>
  /\ theta # R(0)

\* C10: the element list is empty after construction; a call that appends
\* (freeSpace with add=True, lens, mirror, interface, returning normally) adds
\* exactly one matrix at the end and keeps the earlier ones; every other call
\* (propagate_beam, freeSpace with add=False, plotBeamProfile, a call that
\* raises) leaves the list unchanged; no call changes q, z, theta, wavelength
\* or waist.
AppendingCall(c) ==
  /\ c.raised = "none"
  /\ \/ c.op \in {"lens", "mirror", "interface"}
     \/ c.op = "freeSpace" /\ c.add

C10_AppendOnly ==
  /\ optics = <<>>
  /\ [][/\ beam' = beam
        /\ IF AppendingCall(lastCall')
           THEN /\ Len(optics') = Len(optics) + 1
                /\ SubSeq(optics', 1, Len(optics)) = optics
           ELSE optics' = optics]_vars

C10_Witness ==
  /\ lastCall.op = "lens"
  /\ lastCall.type = "thick"
  /\ lastCall.raised = "none"
  /\ Len(optics) = 2
  /\ propagated

====
